---------------------------- MODULE Spec2Model ----------------------------
(***************************************************************************)
(* A model of the atv-bot session store (sessions.ts), planner             *)
(* (planner.ts), event draft rules (discord-events.ts) and the two         *)
(* dispatcher handlers of index.ts.                                        *)
(*                                                                         *)
(* Time is counted in minutes: Date.now() is the variable now, and the     *)
(* 60_000 ms of the source are one unit.                                   *)
(***************************************************************************)
EXTENDS Integers, Sequences, FiniteSets, TLC

VARIABLES
    sessions,   \* sessions.ts:22  the Map<string, Session>, a function on the stored keys
    now,        \* Date.now(), in minutes
    pc,         \* per handler invocation: the await it is suspended at
    held,       \* per Confirm invocation: session.eventDraft read at index.ts:114/136
    req,        \* per Confirm invocation: options handed to guild.scheduledEvents.create
    lastTurn,   \* the most recently ended handler invocation and what the user saw
    call,       \* store/planner harness: the call made last
    ret         \* store/planner harness: what that call returned

vars == <<sessions, now, pc, held, req, lastTurn, call, ret>>

-----------------------------------------------------------------------------
(* Bounds of the model *)

\* the clock runs from 0 to MaxTime
MaxTime == 2

\* start times the completion model may propose are 0..MaxStart
MaxStart == 2

\* applyDefaultEndTimeIfMissing is applied to one draft up to MaxApply times
MaxApply == 2

(* Program constants *)

\* CONFIG.sessionTtlMinutes (SESSION_TTL_MINUTES = 1 in the checked configuration)
sessionTtlMinutes == 1

\* CONFIG.defaultDurationMinutes (DEFAULT_EVENT_DURATION_MINUTES = 2 in the checked configuration)
defaultDurationMinutes == 2

\* the 60_000 ms margin of validateDraft, in minutes
GraceMinutes == 1

-----------------------------------------------------------------------------
(* JavaScript values.  Strings are strings; null and undefined are two     *)
(* reserved tokens that no string of the model equals.                     *)

Null == "<null>"

Undefined == "<undefined>"

\* x ?? y
Coalesce(x, y) == IF x \in {Null, Undefined} THEN y ELSE x

\* the truthiness of a string-or-null value
Truthy(x) == x \notin {Null, Undefined, ""}

\* String(x)
JsString(x) == IF x = Null THEN "null" ELSE IF x = Undefined THEN "undefined" ELSE x

\* a trim that removes nothing
Trim_Identity(s) == s

\* String.prototype.trim on the strings of the model
Trim(s) ==
    CASE s = " " -> ""
      [] s = "  " -> ""
      [] s = " Party " -> "Party"
      [] s = " When? " -> "When?"
      [] s = " hi " -> "hi"
      [] s = " not json " -> "not json"
      [] s = " null " -> "null"
      [] OTHER -> s

\* the empty object {}
EmptyObj == <<>>

\* { ...a, ...b }: the keys of b win
Spread(a, b) ==
    [k \in (DOMAIN a) \cup (DOMAIN b) |-> IF k \in DOMAIN b THEN b[k] ELSE a[k]]

\* Object.keys(o).length
NumKeys(o) == Cardinality(DOMAIN o)

-----------------------------------------------------------------------------
(* ISO-8601 timestamps.  The text of minute t is "T<t>"; every other text   *)
(* does not parse.                                                         *)

\* an invalid luxon DateTime
Invalid == -1

IsoRange == 0 .. (MaxStart + defaultDurationMinutes + 2)

\* DateTime.toISO(): null for an invalid DateTime
ToISO(t) == IF t = Invalid THEN Null ELSE "T" \o ToString(t)

\* DateTime.fromISO(text, {zone}) as epoch minutes, Invalid when the text does not parse
FromISO(s) ==
    IF \E t \in IsoRange : ToISO(t) = s
    THEN CHOOSE t \in IsoRange : ToISO(t) = s
    ELSE Invalid

\* DateTime.plus({minutes}): an invalid DateTime stays invalid
PlusMinutes(t, m) == IF t = Invalid THEN Invalid ELSE t + m

-----------------------------------------------------------------------------
(* Event drafts (discord-events.ts).  An EventDraft is a record of its     *)
(* seven properties; a property the object does not have is Undefined.     *)

DraftFields ==
    {"name", "description", "scheduledStartTime", "scheduledEndTime",
     "entityType", "location", "channelId"}

\* guild.channels.cache: the channels of the guild and their types
GuildChannels ==
    { [id |-> "c1", name |-> "General", type |-> "GuildVoice"],
      [id |-> "c2", name |-> "Stage", type |-> "GuildStageVoice"],
      [id |-> "c3", name |-> "text", type |-> "GuildText"] }

listSchedulableChannels(channels) ==
    { [id |-> ch.id, name |-> ch.name, kind |-> "VOICE"] :
          ch \in {c \in channels : c.type = "GuildVoice"} }
    \cup
    { [id |-> ch.id, name |-> ch.name, kind |-> "STAGE"] :
          ch \in {c \in channels : c.type = "GuildStageVoice"} }

\* draft.name?.trim() and its like: undefined stays undefined
OptTrim(x) == IF x \in {Null, Undefined} THEN Undefined ELSE Trim(x)

\* validateDraft without the rule that an EXTERNAL event has a location
validateDraft_NoLocation(draft, t) ==
    LET start == FromISO(draft.scheduledStartTime)
        end == FromISO(draft.scheduledEndTime)
    IN  IF ~Truthy(OptTrim(draft.name)) THEN "Missing event name."
        ELSE IF ~Truthy(draft.scheduledStartTime) THEN "Missing start time."
        ELSE IF ~Truthy(draft.entityType) THEN "Missing entity type."
        ELSE IF start = Invalid THEN "Start time is not a valid ISO timestamp."
        ELSE IF start < t + GraceMinutes THEN "Start time must be in the future."
        ELSE IF Truthy(draft.scheduledEndTime) /\ end = Invalid
             THEN "End time is not a valid ISO timestamp."
        ELSE IF Truthy(draft.scheduledEndTime) /\ end <= start
             THEN "End time must be after start time."
        ELSE IF draft.entityType # "EXTERNAL" /\ ~Truthy(OptTrim(draft.channelId))
             THEN "Voice/Stage events require a channelId."
        ELSE Null

\* validateDraft without the rule that a VOICE/STAGE event has a channelId
validateDraft_NoChannel(draft, t) ==
    LET start == FromISO(draft.scheduledStartTime)
        end == FromISO(draft.scheduledEndTime)
    IN  IF ~Truthy(OptTrim(draft.name)) THEN "Missing event name."
        ELSE IF ~Truthy(draft.scheduledStartTime) THEN "Missing start time."
        ELSE IF ~Truthy(draft.entityType) THEN "Missing entity type."
        ELSE IF start = Invalid THEN "Start time is not a valid ISO timestamp."
        ELSE IF start < t + GraceMinutes THEN "Start time must be in the future."
        ELSE IF Truthy(draft.scheduledEndTime) /\ end = Invalid
             THEN "End time is not a valid ISO timestamp."
        ELSE IF Truthy(draft.scheduledEndTime) /\ end <= start
             THEN "End time must be after start time."
        ELSE IF draft.entityType = "EXTERNAL" /\ ~Truthy(OptTrim(draft.location))
             THEN "External events require a location."
        ELSE Null

\* validateDraft that asks for the entity type before the start time
validateDraft_Reordered(draft, t) ==
    LET start == FromISO(draft.scheduledStartTime)
        end == FromISO(draft.scheduledEndTime)
    IN  IF ~Truthy(OptTrim(draft.name)) THEN "Missing event name."
        ELSE IF ~Truthy(draft.entityType) THEN "Missing entity type."
        ELSE IF ~Truthy(draft.scheduledStartTime) THEN "Missing start time."
        ELSE IF start = Invalid THEN "Start time is not a valid ISO timestamp."
        ELSE IF start < t + GraceMinutes THEN "Start time must be in the future."
        ELSE IF Truthy(draft.scheduledEndTime) /\ end = Invalid
             THEN "End time is not a valid ISO timestamp."
        ELSE IF Truthy(draft.scheduledEndTime) /\ end <= start
             THEN "End time must be after start time."
        ELSE IF draft.entityType = "EXTERNAL" /\ ~Truthy(OptTrim(draft.location))
             THEN "External events require a location."
        ELSE IF draft.entityType # "EXTERNAL" /\ ~Truthy(OptTrim(draft.channelId))
             THEN "Voice/Stage events require a channelId."
        ELSE Null

\* validateDraft that takes an end time equal to the start time
validateDraft_EndMayEqualStart(draft, t) ==
    LET start == FromISO(draft.scheduledStartTime)
        end == FromISO(draft.scheduledEndTime)
    IN  IF ~Truthy(OptTrim(draft.name)) THEN "Missing event name."
        ELSE IF ~Truthy(draft.scheduledStartTime) THEN "Missing start time."
        ELSE IF ~Truthy(draft.entityType) THEN "Missing entity type."
        ELSE IF start = Invalid THEN "Start time is not a valid ISO timestamp."
        ELSE IF start < t + GraceMinutes THEN "Start time must be in the future."
        ELSE IF Truthy(draft.scheduledEndTime) /\ end = Invalid
             THEN "End time is not a valid ISO timestamp."
        ELSE IF Truthy(draft.scheduledEndTime) /\ end < start
             THEN "End time must be after start time."
        ELSE IF draft.entityType = "EXTERNAL" /\ ~Truthy(OptTrim(draft.location))
             THEN "External events require a location."
        ELSE IF draft.entityType # "EXTERNAL" /\ ~Truthy(OptTrim(draft.channelId))
             THEN "Voice/Stage events require a channelId."
        ELSE Null

\* validateDraft(draft) at clock value t: the error message, or Null
validateDraft(draft, t) ==
    LET start == FromISO(draft.scheduledStartTime)
        end == FromISO(draft.scheduledEndTime)
    IN  IF ~Truthy(OptTrim(draft.name)) THEN "Missing event name."
        ELSE IF ~Truthy(draft.scheduledStartTime) THEN "Missing start time."
        ELSE IF ~Truthy(draft.entityType) THEN "Missing entity type."
        ELSE IF start = Invalid THEN "Start time is not a valid ISO timestamp."
        ELSE IF start < t + GraceMinutes THEN "Start time must be in the future."
        ELSE IF Truthy(draft.scheduledEndTime) /\ end = Invalid
             THEN "End time is not a valid ISO timestamp."
        ELSE IF Truthy(draft.scheduledEndTime) /\ end <= start
             THEN "End time must be after start time."
        ELSE IF draft.entityType = "EXTERNAL" /\ ~Truthy(OptTrim(draft.location))
             THEN "External events require a location."
        ELSE IF draft.entityType # "EXTERNAL" /\ ~Truthy(OptTrim(draft.channelId))
             THEN "Voice/Stage events require a channelId."
        ELSE Null

\* an applyDefaultEndTimeIfMissing that writes the text of an invalid
\* DateTime as the end time
applyDefaultEndTimeWith_InjectsInvalid(draft, minutes) ==
    IF Truthy(draft.scheduledEndTime) THEN draft
    ELSE LET start == FromISO(draft.scheduledStartTime)
             endIso == ToISO(PlusMinutes(start, minutes))
         IN  [draft EXCEPT !.scheduledEndTime =
                               IF Truthy(endIso) THEN endIso ELSE "Invalid DateTime"]

\* applyDefaultEndTimeIfMissing when CONFIG.defaultDurationMinutes is `minutes`
applyDefaultEndTimeWith(draft, minutes) ==
    IF Truthy(draft.scheduledEndTime) THEN draft
    ELSE LET start == FromISO(draft.scheduledStartTime)
             endIso == ToISO(PlusMinutes(start, minutes))
         IN  IF ~Truthy(endIso) THEN draft
             ELSE [draft EXCEPT !.scheduledEndTime = endIso]

applyDefaultEndTimeIfMissing(draft) ==
    applyDefaultEndTimeWith(draft, defaultDurationMinutes)

\* createDiscordScheduledEvent that calls the platform without looking at err
createDiscordScheduledEvent_NoValidate(draft, t) ==
    [calls |-> applyDefaultEndTimeIfMissing(draft)]

\* createDiscordScheduledEvent up to its last line: either it throws the
\* validation message, or it hands finalDraft to guild.scheduledEvents.create
createDiscordScheduledEvent(draft, t) ==
    LET finalDraft == applyDefaultEndTimeIfMissing(draft)
        err == validateDraft(finalDraft, t)
    IN  IF Truthy(err) THEN [throws |-> err]
        ELSE [calls |-> finalDraft]

-----------------------------------------------------------------------------
(* The planner (planner.ts).  A response of the completion model is a      *)
(* record: ok says whether openai.responses.create resolved, output_text   *)
(* is its text, and json is what JSON.parse makes of that text when it is  *)
(* the text of a JSON object.                                              *)

\* the texts that JSON.parse accepts, and the kind of value each gives
JsonKind(text) ==
    CASE text = "null" -> "null"
      [] text = "5" -> "number"
      [] text = "{...}" -> "object"
      [] OTHER -> "SyntaxError"

\* a thrown exception, as the value of a call
Throws(e) == [throws |-> e]

Threw(r) == "throws" \in DOMAIN r

\* the draft object of a model output that has none: every property is undefined
NoDraft == [f \in DraftFields |-> Undefined]

\* the sessionPatch of a model output that has none
NoPatch == [mode |-> Undefined, awaiting |-> Undefined]

\* the properties read off a parsed value that is no object: all undefined
NoJson ==
    [ action |-> Undefined, reply |-> Undefined, question |-> Undefined,
      draft |-> NoDraft, sessionPatch |-> NoPatch ]

AwaitingSlots == {"name", "where", "duration", "description", "confirm"}

\* normalizeSessionPatch that writes null for an awaiting value it does not know
normalizeSessionPatch_Sentinel(patch) ==
    LET rawMode == patch.mode
        mode == IF rawMode = "event" THEN "event"
                ELSE IF rawMode = "chat" THEN "chat" ELSE Undefined
        awaitingRaw == patch.awaiting
        awaiting == IF awaitingRaw \in AwaitingSlots THEN awaitingRaw ELSE Null
        out1 == IF mode # Undefined THEN [mode |-> mode] ELSE EmptyObj
    IN  Spread(out1, [awaiting |-> awaiting])

normalizeSessionPatch(patch) ==
    LET rawMode == patch.mode
        mode == IF rawMode = "event" THEN "event"
                ELSE IF rawMode = "chat" THEN "chat" ELSE Undefined
        awaitingRaw == patch.awaiting
        awaiting == IF awaitingRaw = Null \/ awaitingRaw = "null" THEN Null
                    ELSE IF awaitingRaw \in AwaitingSlots THEN awaitingRaw
                    ELSE Undefined
        out1 == IF mode # Undefined THEN [mode |-> mode] ELSE EmptyObj
        out2 == IF awaiting # Undefined THEN [awaiting |-> awaiting] ELSE EmptyObj
    IN  Spread(out1, out2)

\* a mapping of parsed.draft that copies the optional properties as they are
MapDraft_KeepsNull(d) ==
    [ name |-> Trim(JsString(Coalesce(d.name, ""))),
      scheduledStartTime |-> Trim(JsString(Coalesce(d.scheduledStartTime, ""))),
      entityType |-> d.entityType,
      description |-> d.description,
      scheduledEndTime |-> d.scheduledEndTime,
      location |-> d.location,
      channelId |-> d.channelId ]

\* the propose_event branch's mapping of parsed.draft into an EventDraft
MapDraft(d) ==
    [ name |-> Trim(JsString(Coalesce(d.name, ""))),
      scheduledStartTime |-> Trim(JsString(Coalesce(d.scheduledStartTime, ""))),
      entityType |-> d.entityType,
      description |-> IF Truthy(d.description) THEN JsString(d.description) ELSE Undefined,
      scheduledEndTime |->
          IF Truthy(d.scheduledEndTime) THEN JsString(d.scheduledEndTime) ELSE Undefined,
      location |-> IF Truthy(d.location) THEN JsString(d.location) ELSE Undefined,
      channelId |-> IF Truthy(d.channelId) THEN JsString(d.channelId) ELSE Undefined ]

\* planNext from the completion model's response on (planner.ts:138-199)
planNext(response) ==
    IF ~response.ok THEN Throws("APIError")
    ELSE
    LET raw == OptTrim(response.output_text)
        k == JsonKind(raw)
        parsed == IF k = "object" THEN response.json ELSE NoJson
        patch == normalizeSessionPatch(parsed.sessionPatch)
    IN  IF ~Truthy(raw)
        THEN [action |-> "chat", reply |-> "I didn't get a usable response. Try again."]
        ELSE IF k = "SyntaxError" THEN [action |-> "chat", reply |-> raw]
        ELSE IF k = "null" THEN Throws("TypeError")
        ELSE IF parsed.action = "chat"
        THEN LET reply == Trim(JsString(Coalesce(parsed.reply, "")))
             IN  Spread([action |-> "chat",
                         reply |-> IF Truthy(reply) THEN reply ELSE "OK."],
                        IF NumKeys(patch) # 0 THEN [sessionPatch |-> patch] ELSE EmptyObj)
        ELSE IF parsed.action = "ask"
        THEN LET question == Trim(JsString(Coalesce(parsed.question, "")))
             IN  IF ~Truthy(question)
                 THEN [action |-> "chat",
                       reply |-> "I need one detail to proceed-what should I clarify?"]
                 ELSE [action |-> "ask", question |-> question, sessionPatch |-> patch]
        ELSE IF parsed.action = "propose_event"
        THEN [action |-> "propose_event", draft |-> MapDraft(parsed.draft),
              sessionPatch |-> patch]
        ELSE [action |-> "chat", reply |-> "I'm not sure what you want. Can you rephrase?"]

\* a default that writes mode and awaiting when the planner sent no patch
PatchOf_ForcesChat(planned) ==
    IF "sessionPatch" \in DOMAIN planned THEN planned.sessionPatch
    ELSE [mode |-> "chat", awaiting |-> Null]

\* planned.sessionPatch ?? {}
PatchOf(planned) ==
    IF "sessionPatch" \in DOMAIN planned THEN planned.sessionPatch ELSE EmptyObj

-----------------------------------------------------------------------------
(* The session store (sessions.ts).  A Session is a record; eventDraft is  *)
(* <<>> when undefined and <<draft>> otherwise.  An optional result        *)
(* (Session | undefined) is likewise <<>> or <<session>>.                  *)

makeSessionKey(guildId, channelId, userId) == guildId \o ":" \o channelId \o ":" \o userId

\* Map.delete
MapDelete(store, key) == [k \in (DOMAIN store) \ {key} |-> store[k]]

\* Map.set
MapSet(store, key, value) ==
    [k \in (DOMAIN store) \cup {key} |-> IF k = key THEN value ELSE store[k]]

\* getSession that hides an expired session but leaves it in the Map
getSession_KeepsExpired(store, key, t) ==
    IF key \notin DOMAIN store THEN [ret |-> <<>>, store |-> store]
    ELSE IF t > store[key].expiresAtMs
         THEN [ret |-> <<>>, store |-> store]
         ELSE [ret |-> <<store[key]>>, store |-> store]

\* getSession(key) at clock value t: what it returns, and the Map afterwards
getSession(store, key, t) ==
    IF key \notin DOMAIN store THEN [ret |-> <<>>, store |-> store]
    ELSE IF t > store[key].expiresAtMs
         THEN [ret |-> <<>>, store |-> MapDelete(store, key)]
         ELSE [ret |-> <<store[key]>>, store |-> store]

\* upsertSession that reads a null awaiting in the patch as "leave unchanged"
upsertSession_NullMeansKeep(store, key, patch, t) ==
    LET got == getSession(store, key, t)
        current == got.ret
        ttlMs == sessionTtlMinutes
        defaults ==
            [ key |-> key,
              mode |-> IF current = <<>> THEN "chat" ELSE Coalesce(current[1].mode, "chat"),
              awaiting |-> IF current = <<>> THEN Null ELSE Coalesce(current[1].awaiting, Null),
              eventDraft |-> IF current = <<>> THEN <<>> ELSE current[1].eventDraft ]
        merged == Spread(defaults, IF current = <<>> THEN EmptyObj ELSE current[1])
        kept == IF "awaiting" \in DOMAIN patch /\ patch.awaiting = Null
                THEN [awaiting |-> merged.awaiting] ELSE EmptyObj
        next == Spread(Spread(Spread(merged, patch), kept), [expiresAtMs |-> t + ttlMs])
    IN  [ret |-> next, store |-> MapSet(got.store, key, next)]

\* upsertSession that spreads the patch after expiresAtMs
upsertSession_PatchExpiryWins(store, key, patch, t) ==
    LET got == getSession(store, key, t)
        current == got.ret
        ttlMs == sessionTtlMinutes
        defaults ==
            [ key |-> key,
              mode |-> IF current = <<>> THEN "chat" ELSE Coalesce(current[1].mode, "chat"),
              awaiting |-> IF current = <<>> THEN Null ELSE Coalesce(current[1].awaiting, Null),
              eventDraft |-> IF current = <<>> THEN <<>> ELSE current[1].eventDraft ]
        merged == Spread(defaults, IF current = <<>> THEN EmptyObj ELSE current[1])
        next == Spread(Spread(merged, [expiresAtMs |-> t + ttlMs]), patch)
    IN  [ret |-> next, store |-> MapSet(got.store, key, next)]

\* upsertSession that takes eventDraft from the patch alone
upsertSession_DropsDraft(store, key, patch, t) ==
    LET got == getSession(store, key, t)
        current == got.ret
        ttlMs == sessionTtlMinutes
        defaults ==
            [ key |-> key,
              mode |-> IF current = <<>> THEN "chat" ELSE Coalesce(current[1].mode, "chat"),
              awaiting |-> IF current = <<>> THEN Null ELSE Coalesce(current[1].awaiting, Null),
              eventDraft |-> IF current = <<>> THEN <<>> ELSE current[1].eventDraft ]
        merged == Spread(defaults, IF current = <<>> THEN EmptyObj ELSE current[1])
        draft == IF "eventDraft" \in DOMAIN patch THEN EmptyObj
                 ELSE [eventDraft |-> <<>>]
        next == Spread(Spread(Spread(merged, patch), draft), [expiresAtMs |-> t + ttlMs])
    IN  [ret |-> next, store |-> MapSet(got.store, key, next)]

\* upsertSession(key, patch) at clock value t: what it returns, and the Map afterwards
upsertSession(store, key, patch, t) ==
    LET got == getSession(store, key, t)
        current == got.ret
        ttlMs == sessionTtlMinutes
        defaults ==
            [ key |-> key,
              mode |-> IF current = <<>> THEN "chat" ELSE Coalesce(current[1].mode, "chat"),
              awaiting |-> IF current = <<>> THEN Null ELSE Coalesce(current[1].awaiting, Null),
              eventDraft |-> IF current = <<>> THEN <<>> ELSE current[1].eventDraft ]
        next ==
            Spread(Spread(Spread(defaults, IF current = <<>> THEN EmptyObj ELSE current[1]),
                          patch),
                   [expiresAtMs |-> t + ttlMs])
    IN  [ret |-> next, store |-> MapSet(got.store, key, next)]

clearSession(store, key) == MapDelete(store, key)

-----------------------------------------------------------------------------
(* The dispatcher (index.ts): what the completion model may answer.        *)

\* the handler invocations that may be in flight at once
Procs == {"h1", "h2"}

\* the one (guild, channel, user) the turns of the model come from
Key == makeSessionKey("g", "c", "u")

CONFIRM_ID == "atv_ai_confirm"

CANCEL_ID == "atv_ai_cancel"

\* a model output of JSON-object form
Obj(action, reply, question, draft, mode, awaiting) ==
    [ ok |-> TRUE, output_text |-> "{...}",
      json |-> [ action |-> action, reply |-> reply, question |-> question,
                 draft |-> draft, sessionPatch |-> [mode |-> mode, awaiting |-> awaiting] ] ]

\* a model output that is not a JSON object
Text(text) == [ok |-> TRUE, output_text |-> text, json |-> NoJson]

\* openai.responses.create rejects
Failure == [ok |-> FALSE, output_text |-> Undefined, json |-> NoJson]

\* a draft object as the completion model writes it (null for what it leaves out)
RawDraft(name, description, start, end, entityType, location, channelId) ==
    [ name |-> name, description |-> description, scheduledStartTime |-> start,
      scheduledEndTime |-> end, entityType |-> entityType, location |-> location,
      channelId |-> channelId ]

\* the drafts the completion model proposes in the dispatcher's runs
TurnDrafts ==
    { RawDraft("Party", "fun", ToISO(MaxStart), Null, "EXTERNAL", "Park", Null),
      RawDraft("Party", Null, ToISO(MaxStart), Null, "VOICE", Null, "c3"),
      RawDraft("Party", Null, ToISO(MaxStart), Null, "EXTERNAL", Null, Null),
      RawDraft("Party", Null, ToISO(MaxStart), Null, "VOICE", Null, Null) }

\* the session patches the completion model writes in the dispatcher's runs
TurnPatches ==
    { [mode |-> Null, awaiting |-> "bogus"],
      [mode |-> "chat", awaiting |-> Null],
      [mode |-> "event", awaiting |-> "confirm"] }

\* the answers of the completion model in the dispatcher's runs
TurnResponses ==
    {Failure, Text(""), Text("not json"), Text("null")}
    \cup { Obj("chat", "hi", Null, NoDraft, sp.mode, sp.awaiting) : sp \in TurnPatches }
    \cup { Obj("ask", Null, "When?", NoDraft, sp.mode, sp.awaiting) : sp \in TurnPatches }
    \cup { Obj("ask", Null, "", NoDraft, Null, "confirm") }
    \cup { Obj("propose_event", Null, Null, d, sp.mode, sp.awaiting) :
               d \in TurnDrafts,
               sp \in {[mode |-> Null, awaiting |-> Null],
                       [mode |-> "chat", awaiting |-> "confirm"]} }

\* what planNext returns (or throws) for those answers
TurnPlans == { planNext(response) : response \in TurnResponses }

-----------------------------------------------------------------------------
(* The dispatcher: the handlers, one action per stretch between awaits.    *)

\* how the platform treats the sends of one invocation: it takes them all
\* ("up"), rejects the first and takes the next ("flaky"), or rejects all ("down")
Net == {"up", "flaky", "down"}

\* what the user sees when an interaction handler sends `first`: a rejected
\* send lands in the catch block (index.ts:145-158), which sends "Error: ..."
\* and ignores a failure of that send
Delivered(first, net) ==
    IF net = "up" THEN first ELSE IF net = "flaky" THEN "error" ELSE "undelivered"

\* what the user sees when the handler sends once and ignores a failure: the
\* error message of index.ts:151/153, or message.reply under index.ts:205-208
SentOnce(first, net) == IF net = "up" THEN first ELSE "undelivered"

\* the end of an invocation of handler k: it returns by the path `via`, and
\* `out` is what the user was sent: "undelivered" when the platform rejected
\* every send the handler made, "none" when the handler made no send at all
EndTurn(p, k, via, out) ==
    /\ lastTurn' = [kind |-> k, via |-> via, out |-> out]
    /\ pc' = [pc EXCEPT ![p] = "idle"]
    /\ held' = [held EXCEPT ![p] = <<>>]
    /\ req' = [req EXCEPT ![p] = <<>>]

\* the session writes of a turn without the writes of index.ts:86 and 193
ApplyPlanned_NoBias(store, planned, t, bias) ==
    LET first == upsertSession(store, Key, PatchOf(planned), t)
    IN  IF planned.action = "propose_event"
        THEN upsertSession(first.store, Key,
                           [mode |-> "event", awaiting |-> "confirm",
                            eventDraft |-> <<planned.draft>>], t).store
        ELSE first.store

\* the session writes of a turn once planNext has returned `planned`
\* (index.ts:84-86 and 101 with bias = TRUE, index.ts:184, 193 and 199 otherwise)
ApplyPlanned(store, planned, t, bias) ==
    LET first == upsertSession(store, Key, PatchOf(planned), t)
        second ==
            IF bias
            THEN IF planned.action # "chat" /\ first.ret.mode # "event"
                 THEN upsertSession(first.store, Key, [mode |-> "event"], t).store
                 ELSE first.store
            ELSE IF planned.action = "ask"
                 THEN upsertSession(first.store, Key, [mode |-> "event"], t).store
                 ELSE first.store
    IN  IF planned.action = "propose_event"
        THEN upsertSession(second, Key,
                           [mode |-> "event", awaiting |-> "confirm",
                            eventDraft |-> <<planned.draft>>], t).store
        ELSE second

\* what a turn sends for a planner result
OutputFor(planned) ==
    CASE planned.action = "chat" -> "reply"
      [] planned.action = "ask" -> "question"
      [] planned.action = "propose_event" -> "preview"

-----------------------------------------------------------------------------
(* InteractionCreate, slash command /atv-ai (index.ts:56-108) *)

\* index.ts:59-62: the command was not used in a server channel
SlashOutsideGuild(p) ==
    /\ pc[p] = "idle"
    /\ \E net \in Net : EndTurn(p, "slash", "outside_guild", Delivered("reply", net))
    /\ UNCHANGED <<sessions, now, call, ret>>

\* index.ts:66-67: the session write at the start of a slash-command turn
SlashStartWrite(store, t) ==
    LET existing == getSession(store, Key, t)
        patch == IF existing.ret # <<>> THEN EmptyObj
                 ELSE [mode |-> "chat", awaiting |-> Null]
    IN  upsertSession(existing.store, Key, patch, t).store

\* index.ts:63-69: start or refresh the session, then await deferReply
SlashStart(p) ==
    /\ pc[p] = "idle"
    /\ sessions' = SlashStartWrite(sessions, now)
    /\ pc' = [pc EXCEPT ![p] = "slash_defer"]
    /\ UNCHANGED <<now, held, req, lastTurn, call, ret>>

\* a catch block that answers only a deferred interaction: nothing is sent
\* when deferReply itself was the call that failed
SlashDeferFails_Silent(p) ==
    /\ pc[p] = "slash_defer"
    /\ EndTurn(p, "slash", "defer_failed", "none")
    /\ UNCHANGED <<sessions, now, call, ret>>

\* index.ts:69, 145-158: deferReply rejects; the catch block replies
SlashDeferFails(p) ==
    /\ pc[p] = "slash_defer"
    /\ \E net \in Net : EndTurn(p, "slash", "defer_failed", SentOnce("error", net))
    /\ UNCHANGED <<sessions, now, call, ret>>

\* index.ts:71-75: no guild object
SlashNoGuild(p) ==
    /\ pc[p] = "slash_defer"
    /\ \E net \in Net : EndTurn(p, "slash", "no_guild", Delivered("reply", net))
    /\ UNCHANGED <<sessions, now, call, ret>>

\* index.ts:77-83: planNext is called and awaits the completion model
SlashAsksPlanner(p) ==
    /\ pc[p] = "slash_defer"
    /\ pc' = [pc EXCEPT ![p] = "slash_plan"]
    /\ UNCHANGED <<sessions, now, held, req, lastTurn, call, ret>>

\* index.ts:83-107: planNext settles; the session writes and the reply
SlashPlanned(p) ==
    /\ pc[p] = "slash_plan"
    /\ \E planned \in TurnPlans, net \in Net :
              IF Threw(planned)
              THEN /\ EndTurn(p, "slash", "planner_threw", SentOnce("error", net))
                   /\ UNCHANGED sessions
              ELSE /\ sessions' = ApplyPlanned(sessions, planned, now, TRUE)
                   /\ EndTurn(p, "slash", planned.action,
                              Delivered(OutputFor(planned), net))
    /\ UNCHANGED <<now, call, ret>>

-----------------------------------------------------------------------------
(* InteractionCreate, buttons (index.ts:111-144) *)

\* session?.eventDraft is truthy
HasDraft(session) == IF session = <<>> THEN FALSE ELSE session[1].eventDraft # <<>>

\* index.ts:111-119: a click with no live session, or with no draft in it
ButtonNoDraft(p) ==
    /\ pc[p] = "idle"
    /\ LET got == getSession(sessions, Key, now)
       IN  /\ ~HasDraft(got.ret)
           /\ sessions' = got.store
    /\ \E net \in Net : EndTurn(p, "button", "no_draft", Delivered("reply", net))
    /\ UNCHANGED <<now, call, ret>>

\* index.ts:121-125: Cancel
ButtonCancel(p) ==
    /\ pc[p] = "idle"
    /\ LET got == getSession(sessions, Key, now)
       IN  /\ HasDraft(got.ret)
           /\ sessions' = clearSession(got.store, Key)
    /\ \E net \in Net : EndTurn(p, "button", "cancel", Delivered("cancelled", net))
    /\ UNCHANGED <<now, call, ret>>

\* index.ts:127-128: Confirm reads the session and awaits deferReply
ConfirmStart(p) ==
    /\ pc[p] = "idle"
    /\ LET got == getSession(sessions, Key, now)
       IN  /\ HasDraft(got.ret)
           /\ sessions' = got.store
           /\ held' = [held EXCEPT ![p] = got.ret[1].eventDraft]
    /\ pc' = [pc EXCEPT ![p] = "confirm_defer"]
    /\ UNCHANGED <<now, req, lastTurn, call, ret>>

\* index.ts:128, 145-158: deferReply rejects
ConfirmDeferFails(p) ==
    /\ pc[p] = "confirm_defer"
    /\ \E net \in Net : EndTurn(p, "button", "defer_failed", SentOnce("error", net))
    /\ UNCHANGED <<sessions, now, call, ret>>

\* index.ts:130-134: no guild object
ConfirmNoGuild(p) ==
    /\ pc[p] = "confirm_defer"
    /\ \E net \in Net : EndTurn(p, "button", "no_guild", Delivered("reply", net))
    /\ UNCHANGED <<sessions, now, call, ret>>

\* index.ts:136-138, discord-events.ts:98-100: the draft does not validate
ConfirmRejected(p) ==
    /\ pc[p] = "confirm_defer"
    /\ Threw(createDiscordScheduledEvent(held[p][1], now))
    /\ \E net \in Net : EndTurn(p, "button", "rejected", SentOnce("error", net))
    /\ UNCHANGED <<sessions, now, call, ret>>

\* index.ts:136-138, discord-events.ts:98-123: guild.scheduledEvents.create is called
ConfirmCallsApi(p) ==
    /\ pc[p] = "confirm_defer"
    /\ LET r == createDiscordScheduledEvent(held[p][1], now)
       IN  /\ ~Threw(r)
           /\ req' = [req EXCEPT ![p] = <<r.calls>>]
    /\ pc' = [pc EXCEPT ![p] = "confirm_create"]
    /\ UNCHANGED <<sessions, now, held, lastTurn, call, ret>>

\* index.ts:138-142: the platform created the event
ConfirmCreated(p) ==
    /\ pc[p] = "confirm_create"
    /\ sessions' = clearSession(sessions, Key)
    /\ \E net \in Net : EndTurn(p, "button", "created", Delivered("created", net))
    /\ UNCHANGED <<now, call, ret>>

\* a Confirm that clears the session before the platform has answered
ConfirmApiFails_Clears(p) ==
    /\ pc[p] = "confirm_create"
    /\ sessions' = clearSession(sessions, Key)
    /\ \E net \in Net : EndTurn(p, "button", "api_failed", SentOnce("error", net))
    /\ UNCHANGED <<now, call, ret>>

\* index.ts:138, 145-158: the platform rejected the event
ConfirmApiFails(p) ==
    /\ pc[p] = "confirm_create"
    /\ \E net \in Net : EndTurn(p, "button", "api_failed", SentOnce("error", net))
    /\ UNCHANGED <<sessions, now, call, ret>>

-----------------------------------------------------------------------------
(* MessageCreate (index.ts:163-209).  A message of a bot or outside a      *)
(* guild returns at lines 165-166 before anything is read.                 *)

\* index.ts:168-170: no live session for the key, the handler returns
MessageNoSession(p) ==
    /\ pc[p] = "idle"
    /\ LET got == getSession(sessions, Key, now)
       IN  /\ got.ret = <<>>
           /\ sessions' = got.store
    /\ UNCHANGED <<now, pc, held, req, lastTurn, call, ret>>

\* index.ts:168-173: a live session but no guild object, the handler returns
MessageNoGuild(p) ==
    /\ pc[p] = "idle"
    /\ getSession(sessions, Key, now).ret # <<>>
    /\ EndTurn(p, "message", "no_guild", "none")
    /\ UNCHANGED <<sessions, now, call, ret>>

\* index.ts:168-181: a live session; planNext is called and awaits the model
MessageStart(p) ==
    /\ pc[p] = "idle"
    /\ getSession(sessions, Key, now).ret # <<>>
    /\ pc' = [pc EXCEPT ![p] = "msg_plan"]
    /\ UNCHANGED <<sessions, now, held, req, lastTurn, call, ret>>

\* index.ts:181-208: planNext settles; the session writes and the reply.
\* The catch block only logs: a failure sends nothing
MessagePlanned(p) ==
    /\ pc[p] = "msg_plan"
    /\ \E planned \in TurnPlans, net \in Net :
              IF Threw(planned)
              THEN /\ EndTurn(p, "message", "planner_threw", "none")
                   /\ UNCHANGED sessions
              ELSE /\ sessions' = ApplyPlanned(sessions, planned, now, FALSE)
                   /\ EndTurn(p, "message", planned.action,
                              SentOnce(OutputFor(planned), net))
    /\ UNCHANGED <<now, call, ret>>

-----------------------------------------------------------------------------
(* The clock *)

Tick ==
    /\ now < MaxTime
    /\ now' = now + 1
    /\ UNCHANGED <<sessions, pc, held, req, lastTurn, call, ret>>

-----------------------------------------------------------------------------
(* The dispatcher's specification *)

Init ==
    /\ sessions = <<>>
    /\ now = 0
    /\ pc = [p \in Procs |-> "idle"]
    /\ held = [p \in Procs |-> <<>>]
    /\ req = [p \in Procs |-> <<>>]
    /\ lastTurn = [kind |-> "none", via |-> "none", out |-> "none"]
    /\ call = [fn |-> "none", n |-> 0]
    /\ ret = <<>>

Next ==
    \/ Tick
    \/ \E p \in Procs :
          \/ SlashOutsideGuild(p)
          \/ SlashStart(p)
          \/ SlashDeferFails(p)
          \/ SlashNoGuild(p)
          \/ SlashAsksPlanner(p)
          \/ SlashPlanned(p)
          \/ ButtonNoDraft(p)
          \/ ButtonCancel(p)
          \/ ConfirmStart(p)
          \/ ConfirmDeferFails(p)
          \/ ConfirmNoGuild(p)
          \/ ConfirmRejected(p)
          \/ ConfirmCallsApi(p)
          \/ ConfirmCreated(p)
          \/ ConfirmApiFails(p)
          \/ MessageNoSession(p)
          \/ MessageNoGuild(p)
          \/ MessageStart(p)
          \/ MessagePlanned(p)

Spec == Init /\ [][Next]_vars

-----------------------------------------------------------------------------
(* The session store on its own: any caller, any patch.  call is the call  *)
(* made last (n flips at every call; found and was are what the Map held   *)
(* for the key when the call began), ret is what it returned.              *)

StoreKeys == {Key, makeSessionKey("g", "c", "v")}

\* a draft as the store holds it
StoredDraft ==
    MapDraft(RawDraft("Party", Null, ToISO(MaxStart), Null, "EXTERNAL", "Park", Null))

\* Partial<Session> values: each of the four properties present or not
StorePatches ==
    { Spread(Spread(m, a), d) :
          m \in {EmptyObj, [mode |-> "event"]},
          a \in {EmptyObj, [awaiting |-> Null], [awaiting |-> "where"]},
          d \in {EmptyObj, [eventDraft |-> <<StoredDraft>>]} }
    \cup { [expiresAtMs |-> 0], [mode |-> "event", expiresAtMs |-> 0] }

\* what a read of key finds in the Map before it runs
Found(key) ==
    IF key \notin DOMAIN sessions THEN "absent"
    ELSE IF now > sessions[key].expiresAtMs THEN "expired" ELSE "live"

StoreGet(key) ==
    /\ LET got == getSession(sessions, key, now)
       IN  /\ sessions' = got.store
           /\ ret' = got.ret
    /\ call' = [fn |-> "get", key |-> key, found |-> Found(key), n |-> 1 - call.n]
    /\ UNCHANGED <<now, pc, held, req, lastTurn>>

StoreUpsert(key, patch) ==
    /\ LET up == upsertSession(sessions, key, patch, now)
       IN  /\ sessions' = up.store
           /\ ret' = <<up.ret>>
    /\ call' = [fn |-> "upsert", key |-> key, patch |-> patch, found |-> Found(key),
                was |-> IF key \in DOMAIN sessions THEN sessions[key].expiresAtMs ELSE -1,
                n |-> 1 - call.n]
    /\ UNCHANGED <<now, pc, held, req, lastTurn>>

StoreClear(key) ==
    /\ sessions' = clearSession(sessions, key)
    /\ ret' = <<>>
    /\ call' = [fn |-> "clear", key |-> key, found |-> Found(key), n |-> 1 - call.n]
    /\ UNCHANGED <<now, pc, held, req, lastTurn>>

StoreNext ==
    \/ Tick
    \/ \E key \in StoreKeys :
          \/ StoreGet(key)
          \/ StoreClear(key)
          \/ \E patch \in StorePatches : StoreUpsert(key, patch)

StoreSpec == Init /\ [][StoreNext]_vars

-----------------------------------------------------------------------------
(* The planner on its own: planNext applied to one answer of the           *)
(* completion model, drawn from PlanResponses.                             *)

\* session patches as the completion model may write them
PlanPatches ==
    { [mode |-> m, awaiting |-> a] :
          m \in {Null, "chat", "event", "party"},
          a \in {Null, "null", "bogus"} \cup AwaitingSlots }
    \cup {NoPatch}

\* draft objects as the completion model may write them
PlanDrafts ==
    { RawDraft(n, d, st, e, ty, l, c) :
          n \in {"Party", ""},
          d \in {Null, "fun"},
          st \in {ToISO(MaxStart), ""},
          e \in {Null, "", ToISO(MaxStart + 1)},
          ty \in {"EXTERNAL", "VOICE"},
          l \in {Null, "", "Park"},
          c \in {Null, "c1"} }
    \cup {NoDraft}

PlanResponses ==
    {Failure, Text(Undefined), Text(""), Text(" "), Text("not json"), Text(" not json "),
     Text("null"), Text(" null "), Text("5")}
    \cup { Obj(act, r, Null, NoDraft, sp.mode, sp.awaiting) :
               act \in {"chat", "dance", Null}, r \in {Null, "", " ", "hi", " hi "},
               sp \in PlanPatches }
    \cup { Obj("ask", Null, q, NoDraft, sp.mode, sp.awaiting) :
               q \in {Null, "", " ", "When?", " When? "}, sp \in PlanPatches }
    \cup { Obj("propose_event", Null, Null, d, sp.mode, sp.awaiting) :
               d \in PlanDrafts,
               sp \in {NoPatch, [mode |-> "event", awaiting |-> "confirm"]} }

PlanInit ==
    /\ sessions = <<>>
    /\ now = 0
    /\ pc = [p \in Procs |-> "idle"]
    /\ held = [p \in Procs |-> <<>>]
    /\ req = [p \in Procs |-> <<>>]
    /\ lastTurn = [kind |-> "none", via |-> "none", out |-> "none"]
    /\ call \in { [fn |-> "planNext", response |-> r] : r \in PlanResponses }
    /\ ret = <<>>

\* planNext returns, or throws
PlanApply ==
    /\ call.fn = "planNext"
    /\ ret = <<>>
    /\ ret' = <<planNext(call.response)>>
    /\ UNCHANGED <<sessions, now, pc, held, req, lastTurn, call>>

PlanSpec == PlanInit /\ [][PlanApply]_vars

-----------------------------------------------------------------------------
(* The event draft rules on their own: a draft, a clock value and a         *)
(* configured default duration are drawn; applyDefaultEndTimeIfMissing and  *)
(* validateDraft are applied to the draft.  call holds the draft as drawn   *)
(* (orig), as it is now (draft) and as it was after the first application   *)
(* (once); ret is what validateDraft returned for the draft as it is now.   *)

\* values of CONFIG.defaultDurationMinutes
Durations == {0, 1, defaultDurationMinutes}

\* EventDraft values handed to the draft rules
RuleDrafts ==
    { [ name |-> n, description |-> Undefined, scheduledStartTime |-> st,
        scheduledEndTime |-> e, entityType |-> ty, location |-> l, channelId |-> c ] :
          n \in {"Party", " ", Undefined},
          st \in {Undefined, "", "bad"} \cup { ToISO(t) : t \in 0 .. MaxStart },
          e \in {Undefined, "bad"} \cup { ToISO(t) : t \in 1 .. (MaxStart + 1) },
          ty \in {Undefined, "EXTERNAL", "VOICE", "STAGE"},
          l \in {Undefined, " ", "Park"},
          c \in {Undefined, " ", "c1"} }

RuleInit ==
    /\ sessions = <<>>
    /\ now \in 0 .. MaxTime
    /\ pc = [p \in Procs |-> "idle"]
    /\ held = [p \in Procs |-> <<>>]
    /\ req = [p \in Procs |-> <<>>]
    /\ lastTurn = [kind |-> "none", via |-> "none", out |-> "none"]
    /\ call \in { [fn |-> "rules", orig |-> d, draft |-> d, once |-> d,
                   applied |-> 0, minutes |-> m] :
                      d \in RuleDrafts, m \in Durations }
    /\ ret = <<>>

\* finalDraft = applyDefaultEndTimeIfMissing(draft)
RuleApplyDefault ==
    /\ call.fn = "rules"
    /\ call.applied < MaxApply
    /\ LET next == applyDefaultEndTimeWith(call.draft, call.minutes)
       IN  call' = [call EXCEPT !.draft = next,
                                !.once = IF call.applied = 0 THEN next ELSE @,
                                !.applied = @ + 1]
    /\ ret' = <<>>
    /\ UNCHANGED <<sessions, now, pc, held, req, lastTurn>>

\* err = validateDraft(draft)
RuleValidate ==
    /\ call.fn = "rules"
    /\ ret = <<>>
    /\ ret' = <<validateDraft(call.draft, now)>>
    /\ UNCHANGED <<sessions, now, pc, held, req, lastTurn, call>>

RuleNext == RuleApplyDefault \/ RuleValidate

RuleSpec == RuleInit /\ [][RuleNext]_vars

-----------------------------------------------------------------------------
(* Two turns for one key: each of the two handler invocations runs one      *)
(* turn that reaches planNext, a slash-command turn or a plain-message      *)
(* turn, and the turns may overlap at the await of planNext.  call keeps    *)
(* the Map the turns began from (base), the turns in the order they ended   *)
(* (done: kind, the model's answer, planNext's result) and whether the      *)
(* second turn began before the first had ended (overlap).                  *)

\* the Maps the two turns may begin from: empty, a fresh session, a session
\* with a proposed draft
TurnBases ==
    LET fresh == SlashStartWrite(<<>>, 0)
        proposal == planNext(Obj("propose_event", Null, Null,
                                 RawDraft("Party", "fun", ToISO(MaxStart), Null,
                                          "EXTERNAL", "Park", Null),
                                 Null, Null))
    IN  { <<>>, fresh, ApplyPlanned(fresh, proposal, 0, TRUE) }

\* the session writes of one whole turn: its start at clock value ta, the
\* writes after planNext at clock value tb (index.ts:66-67 and 84-101 for a
\* slash-command turn, the read of 169 and 184-199 for a plain-message
\* turn).  These are the writes of a turn that did reach planNext: the test
\* of index.ts:170 is not made again.
TurnWrites(store, turn, ta, tb) ==
    IF turn.kind = "slash"
    THEN LET started == SlashStartWrite(store, ta)
         IN  IF Threw(turn.planned) THEN started
             ELSE ApplyPlanned(started, turn.planned, tb, TRUE)
    ELSE LET got == getSession(store, Key, ta)
         IN  IF Threw(turn.planned) THEN got.store
             ELSE ApplyPlanned(got.store, turn.planned, tb, FALSE)

TurnInit ==
    /\ sessions \in TurnBases
    /\ now = 0
    /\ pc = [p \in Procs |-> "idle"]
    /\ held = [p \in Procs |-> <<>>]
    /\ req = [p \in Procs |-> <<>>]
    /\ lastTurn = [kind |-> "none", via |-> "none", out |-> "none"]
    /\ call = [fn |-> "turns", base |-> sessions, done |-> <<>>, overlap |-> FALSE]
    /\ ret = <<>>

\* index.ts:63-83: a slash-command turn begins and awaits planNext
TurnSlashStart(p) ==
    /\ pc[p] = "idle"
    /\ sessions' = SlashStartWrite(sessions, now)
    /\ pc' = [pc EXCEPT ![p] = "slash_plan"]
    /\ call' = [call EXCEPT !.overlap =
                    @ \/ \E q \in Procs : pc[q] \in {"slash_plan", "msg_plan"}]
    /\ UNCHANGED <<now, held, req, lastTurn, ret>>

\* a turn that writes onto the session as it was when the turns began,
\* not onto the one the Map holds now
TurnSlashPlanned_Stale(p) ==
    /\ pc[p] = "slash_plan"
    /\ \E response \in TurnResponses :
          LET planned == planNext(response)
          IN  /\ sessions' = IF Threw(planned) THEN sessions
                             ELSE ApplyPlanned(SlashStartWrite(call.base, now),
                                               planned, now, TRUE)
              /\ call' = [call EXCEPT !.done =
                              Append(@, [kind |-> "slash", response |-> response,
                                         planned |-> planned])]
    /\ pc' = [pc EXCEPT ![p] = "done"]
    /\ UNCHANGED <<now, held, req, lastTurn, ret>>

\* index.ts:83-101: planNext settles and the turn makes its writes
TurnSlashPlanned(p) ==
    /\ pc[p] = "slash_plan"
    /\ \E response \in TurnResponses :
          LET planned == planNext(response)
          IN  /\ sessions' = IF Threw(planned) THEN sessions
                             ELSE ApplyPlanned(sessions, planned, now, TRUE)
              /\ call' = [call EXCEPT !.done =
                              Append(@, [kind |-> "slash", response |-> response,
                                         planned |-> planned])]
    /\ pc' = [pc EXCEPT ![p] = "done"]
    /\ UNCHANGED <<now, held, req, lastTurn, ret>>

\* index.ts:168-170: a plain message with no live session is ignored
TurnMessageIgnored(p) ==
    /\ pc[p] = "idle"
    /\ LET got == getSession(sessions, Key, now)
       IN  /\ got.ret = <<>>
           /\ sessions' = got.store
    /\ UNCHANGED <<now, pc, held, req, lastTurn, call, ret>>

\* index.ts:168-181: a plain-message turn begins and awaits planNext
TurnMessageStart(p) ==
    /\ pc[p] = "idle"
    /\ getSession(sessions, Key, now).ret # <<>>
    /\ pc' = [pc EXCEPT ![p] = "msg_plan"]
    /\ call' = [call EXCEPT !.overlap =
                    @ \/ \E q \in Procs : pc[q] \in {"slash_plan", "msg_plan"}]
    /\ UNCHANGED <<sessions, now, held, req, lastTurn, ret>>

\* index.ts:181-199: planNext settles and the turn makes its writes
TurnMessagePlanned(p) ==
    /\ pc[p] = "msg_plan"
    /\ \E response \in TurnResponses :
          LET planned == planNext(response)
          IN  /\ sessions' = IF Threw(planned) THEN sessions
                             ELSE ApplyPlanned(sessions, planned, now, FALSE)
              /\ call' = [call EXCEPT !.done =
                              Append(@, [kind |-> "message", response |-> response,
                                         planned |-> planned])]
    /\ pc' = [pc EXCEPT ![p] = "done"]
    /\ UNCHANGED <<now, held, req, lastTurn, ret>>

TurnNext ==
    \/ Tick
    \/ \E p \in Procs :
          \/ TurnSlashStart(p)
          \/ TurnSlashPlanned(p)
          \/ TurnMessageIgnored(p)
          \/ TurnMessageStart(p)
          \/ TurnMessagePlanned(p)

TurnSpec == TurnInit /\ [][TurnNext]_vars

-----------------------------------------------------------------------------
(* The buttons after one proposal: the Map is as a slash-command turn that  *)
(* ended with propose_event at clock value 0 left it, and from then on the  *)
(* user only clicks Confirm and Cancel.  Every call of                      *)
(* guild.scheduledEvents.create is then a call for that one proposal.       *)

ClickInit ==
    /\ sessions \in { ApplyPlanned(SlashStartWrite(<<>>, 0), planned, 0, TRUE) :
                          planned \in { pl \in TurnPlans :
                                            ~Threw(pl) /\ pl.action = "propose_event" } }
    /\ now = 0
    /\ pc = [p \in Procs |-> "idle"]
    /\ held = [p \in Procs |-> <<>>]
    /\ req = [p \in Procs |-> <<>>]
    /\ lastTurn = [kind |-> "slash", via |-> "propose_event", out |-> "preview"]
    /\ call = [fn |-> "none", n |-> 0]
    /\ ret = <<>>

ClickNext ==
    \/ Tick
    \/ \E p \in Procs :
          \/ ButtonNoDraft(p)
          \/ ButtonCancel(p)
          \/ ConfirmStart(p)
          \/ ConfirmDeferFails(p)
          \/ ConfirmNoGuild(p)
          \/ ConfirmRejected(p)
          \/ ConfirmCallsApi(p)
          \/ ConfirmCreated(p)
          \/ ConfirmApiFails(p)

ClickSpec == ClickInit /\ [][ClickNext]_vars

-----------------------------------------------------------------------------
(* Properties of the session store, checked under StoreSpec *)

\* C2: getSession never returns a session whose expiresAtMs has passed, and a
\* returning read leaves the Map alone; a read of an expired entry returns
\* nothing and removes that entry and no other; a read of a key that is not
\* in the Map (as after such a removal) returns nothing and leaves the Map
\* unchanged.
C2_GetNeverReturnsExpired ==
    [][ (call' # call /\ call'.fn = "get") =>
            LET key == call'.key
            IN  /\ ret' # <<>> =>
                       /\ ~(now > ret'[1].expiresAtMs)
                       /\ ret'[1].key = key
                       /\ sessions' = sessions
                /\ Found(key) = "expired" =>
                       /\ ret' = <<>>
                       /\ DOMAIN sessions' = (DOMAIN sessions) \ {key}
                       /\ \A k \in DOMAIN sessions' : sessions'[k] = sessions[k]
                /\ Found(key) = "absent" =>
                       /\ ret' = <<>>
                       /\ sessions' = sessions ]_vars

\* a read found an expired entry, returned nothing and removed it
C2_Witness ==
    /\ call.fn = "get"
    /\ call.found = "expired"
    /\ ret = <<>>
    /\ call.key \notin DOMAIN sessions
    /\ sessions # <<>>

\* C3: upsertSession starts from the stored session when it is there and not
\* expired and from the default (mode chat, awaiting null, no draft)
\* otherwise; mode, awaiting and eventDraft of the result are the patch's
\* when the patch has the key (a null awaiting included) and the starting
\* value when it has not; expiresAtMs is now + TTL whatever the patch holds;
\* the result is stored under the key and returned.
C3_UpsertMerges ==
    [][ (call' # call /\ call'.fn = "upsert") =>
            LET key == call'.key
                patch == call'.patch
                start == IF Found(key) = "live" THEN sessions[key]
                         ELSE [ key |-> key, mode |-> "chat", awaiting |-> Null,
                                eventDraft |-> <<>> ]
                result == ret'[1]
            IN  /\ \A f \in {"mode", "awaiting", "eventDraft"} :
                       result[f] = IF f \in DOMAIN patch THEN patch[f] ELSE start[f]
                /\ result.key = key
                /\ result.expiresAtMs = now + sessionTtlMinutes
                /\ DOMAIN sessions' = (DOMAIN sessions) \cup {key}
                /\ sessions'[key] = result ]_vars

\* a live session was patched with a mode and an expiresAtMs of its own:
\* the mode is the patch's, the expiry is the store's
C3_Witness ==
    /\ call.fn = "upsert"
    /\ call.found = "live"
    /\ "expiresAtMs" \in DOMAIN call.patch
    /\ call.patch.expiresAtMs < now + sessionTtlMinutes
    /\ ret[1].expiresAtMs = now + sessionTtlMinutes
    /\ ret[1].mode = "event"
    /\ sessions[call.key] = ret[1]

\* C4 as stated: an upsert of a key that has a stored session leaves
\* expiresAtMs strictly greater than it was.
C4_ExpiryStrictlyIncreases ==
    [][ (call' # call /\ call'.fn = "upsert" /\ call'.key \in DOMAIN sessions) =>
            sessions'[call'.key].expiresAtMs > sessions[call'.key].expiresAtMs ]_vars

\* C4: an upsert of a key that has a stored session never leaves expiresAtMs
\* smaller than it was, and leaves it strictly greater whenever the clock has
\* moved on since the write that set it.
C4_ExpiryNeverDecreases ==
    [][ (call' # call /\ call'.fn = "upsert" /\ call'.key \in DOMAIN sessions) =>
            LET before == sessions[call'.key].expiresAtMs
                after == sessions'[call'.key].expiresAtMs
            IN  /\ after >= before
                /\ now > before - sessionTtlMinutes => after > before ]_vars

\* an upsert of a live session in the clock value of the write before it:
\* expiresAtMs is what it was
C4_Witness ==
    /\ call.fn = "upsert"
    /\ call.found = "live"
    /\ ret[1].expiresAtMs = call.was

-----------------------------------------------------------------------------
(* Properties of the planner, checked under PlanSpec *)

\* C6 as stated: for a malformed text planNext returns a chat result and does
\* not throw: the generic reply for an empty or blank text, the text itself
\* for one that is not JSON, the fallback reply for JSON of the wrong shape
\* (null, a number, an object whose action is not recognized).
C6_MalformedOutputGivesChat ==
    (ret # <<>> /\ call.fn = "planNext" /\ call.response.ok) =>
        LET raw == OptTrim(call.response.output_text)
            k == JsonKind(raw)
            r == ret[1]
        IN  /\ ~Truthy(raw) =>
                   /\ ~Threw(r)
                   /\ r.action = "chat"
                   /\ r.reply = "I didn't get a usable response. Try again."
            /\ (Truthy(raw) /\ k = "SyntaxError") =>
                   /\ ~Threw(r)
                   /\ r.action = "chat"
                   /\ r.reply = raw
            /\ (Truthy(raw) /\ (\/ k \in {"null", "number"}
                                \/ /\ k = "object"
                                   /\ call.response.json.action
                                          \notin {"chat", "ask", "propose_event"})) =>
                   /\ ~Threw(r)
                   /\ r.action = "chat"
                   /\ r.reply = "I'm not sure what you want. Can you rephrase?"

-----------------------------------------------------------------------------
(* Properties of the dispatcher, checked under Spec *)

\* C1: guild.scheduledEvents.create is called only with a draft that
\* validateDraft accepts at the time of the call, and that draft is the
\* session's draft after applyDefaultEndTimeIfMissing; a Confirm that ends
\* with the validation message has made no call, and its draft, after
\* applyDefaultEndTimeIfMissing, is one validateDraft rejects.
C1_ApiCalledOnlyWithValidDraft ==
    [][ \A p \in Procs :
            /\ (req[p] = <<>> /\ req'[p] # <<>>) =>
                   /\ validateDraft(req'[p][1], now) = Null
                   /\ req'[p][1] = applyDefaultEndTimeIfMissing(held[p][1])
            /\ (pc[p] = "confirm_defer" /\ pc'[p] = "idle"
                    /\ lastTurn'.via = "rejected") =>
                   /\ req[p] = <<>>
                   /\ validateDraft(applyDefaultEndTimeIfMissing(held[p][1]), now) # Null
      ]_vars

\* the platform API has been called with a draft whose end time the default
\* duration filled in
C1_Witness ==
    \E p \in Procs :
        /\ pc[p] = "confirm_create"
        /\ req[p] # <<>>
        /\ held[p][1].scheduledEndTime = Undefined
        /\ req[p][1].scheduledEndTime = ToISO(MaxStart + defaultDurationMinutes)

\* C5: the session of the key leaves the Map only in a step that reads it
\* after its expiry, in the step of a Cancel click, or in the step in which
\* a Confirm learns that the platform created the event; the step in which a
\* Confirm fails, by the validation message or by the platform's refusal,
\* leaves the Map as it is.
C5_SessionLeavesOnlyByCancelCreateExpiry ==
    [][ /\ (Key \in DOMAIN sessions /\ Key \notin DOMAIN sessions') =>
               \/ now > sessions[Key].expiresAtMs
               \/ /\ pc' = pc
                  /\ lastTurn'.kind = "button"
                  /\ lastTurn'.via = "cancel"
               \/ \E p \in Procs :
                      /\ pc[p] = "confirm_create"
                      /\ pc'[p] = "idle"
                      /\ lastTurn'.via = "created"
        /\ \A p \in Procs :
               (/\ pc[p] \in {"confirm_defer", "confirm_create"}
                /\ pc'[p] = "idle"
                /\ lastTurn'.via \in {"rejected", "api_failed"}) =>
                   sessions' = sessions
      ]_vars

\* the platform refused the event of a Confirm, and the session is in the
\* Map with its draft
C5_Witness ==
    /\ lastTurn.kind = "button"
    /\ lastTurn.via = "api_failed"
    /\ Key \in DOMAIN sessions
    /\ sessions[Key].eventDraft # <<>>
    /\ \A p \in Procs : pc[p] = "idle"

\* C7 as stated: a slash-command turn, and a plain-message turn for a key with
\* a live session, ends with something sent to the user.
C7_EveryTurnEndsWithOutput ==
    lastTurn.kind \in {"slash", "message"} => lastTurn.out # "none"

\* C7: a slash-command turn ends with a send: the reply, the question, the
\* preview or the one error message (which the platform may still refuse to
\* deliver); a plain-message turn for a key with a live session ends with a
\* send of the reply, the question or the preview unless planNext threw or
\* the message had no guild object, and then it ends with nothing sent.
C7_SlashTurnsEndWithOutput ==
    /\ lastTurn.kind = "slash" =>
           lastTurn.out \in {"reply", "question", "preview", "error", "undelivered"}
    /\ (lastTurn.kind = "slash" /\ lastTurn.via \in {"defer_failed", "planner_threw"}) =>
           lastTurn.out \in {"error", "undelivered"}
    /\ lastTurn.kind = "message" =>
           /\ lastTurn.out \in {"reply", "question", "preview", "undelivered", "none"}
           /\ lastTurn.out = "none" <=> lastTurn.via \in {"planner_threw", "no_guild"}

\* planNext threw in a slash-command turn and the user got the error message
C7_Witness ==
    /\ lastTurn.kind = "slash"
    /\ lastTurn.via = "planner_threw"
    /\ lastTurn.out = "error"

\* C8 as stated: no incomplete draft reaches the preview-and-confirm step:
\* every draft a session holds for Confirm has a name, a start time, an
\* entity type, and a location when EXTERNAL or a channelId otherwise.
C8_PreviewedDraftIsComplete ==
    \A k \in DOMAIN sessions :
        sessions[k].eventDraft # <<>> =>
            LET d == sessions[k].eventDraft[1]
            IN  /\ Truthy(OptTrim(d.name))
                /\ Truthy(d.scheduledStartTime)
                /\ Truthy(d.entityType)
                /\ d.entityType = "EXTERNAL" => Truthy(OptTrim(d.location))
                /\ d.entityType \in {"VOICE", "STAGE"} => Truthy(OptTrim(d.channelId))

\* C8: planNext passes a propose_event draft on as the model wrote it, so an
\* incomplete draft can be previewed; what holds is that no incomplete draft
\* is handed to guild.scheduledEvents.create.
C8_CreatedDraftIsComplete ==
    \A p \in Procs :
        req[p] # <<>> =>
            LET d == req[p][1]
            IN  /\ Truthy(OptTrim(d.name))
                /\ Truthy(d.scheduledStartTime)
                /\ Truthy(d.entityType)
                /\ d.entityType = "EXTERNAL" => Truthy(OptTrim(d.location))
                /\ d.entityType \in {"VOICE", "STAGE"} => Truthy(OptTrim(d.channelId))

\* an EXTERNAL draft with no location was previewed, and a Confirm of it
\* ended with the validation message while its start was still ahead
C8_Witness ==
    /\ lastTurn.kind = "button"
    /\ lastTurn.via = "rejected"
    /\ now = 0
    /\ Key \in DOMAIN sessions
    /\ sessions[Key].eventDraft # <<>>
    /\ sessions[Key].eventDraft[1].entityType = "EXTERNAL"
    /\ sessions[Key].eventDraft[1].location = Undefined
    /\ \A p \in Procs : pc[p] = "idle"

\* C9 as stated: a VOICE or STAGE draft handed to
\* guild.scheduledEvents.create has the id of one of the guild's schedulable
\* channels as its channelId.
C9_ChannelIsSchedulable ==
    \A p \in Procs :
        (req[p] # <<>> /\ req[p][1].entityType \in {"VOICE", "STAGE"}) =>
            req[p][1].channelId \in { ch.id : ch \in listSchedulableChannels(GuildChannels) }

\* C9: a VOICE or STAGE draft handed to guild.scheduledEvents.create has a
\* channelId that is not blank; validateDraft asks no more of it.
C9_ChannelIsNotBlank ==
    \A p \in Procs :
        (req[p] # <<>> /\ req[p][1].entityType \in {"VOICE", "STAGE"}) =>
            Truthy(OptTrim(req[p][1].channelId))

\* the platform API has been called for a VOICE event in a channel that is
\* not among the schedulable ones
C9_Witness ==
    \E p \in Procs :
        /\ req[p] # <<>>
        /\ req[p][1].entityType = "VOICE"
        /\ Truthy(OptTrim(req[p][1].channelId))
        /\ req[p][1].channelId
               \notin { ch.id : ch \in listSchedulableChannels(GuildChannels) }

\* C10 as stated: while the session stays in the Map unexpired, a draft it
\* holds stays, and every field present in the draft stays present.
C10_DraftFieldsOnlyAccumulate ==
    [][ (/\ Key \in DOMAIN sessions
         /\ ~(now > sessions[Key].expiresAtMs)
         /\ Key \in DOMAIN sessions'
         /\ sessions[Key].eventDraft # <<>>) =>
            /\ sessions'[Key].eventDraft # <<>>
            /\ \A f \in DraftFields :
                   Truthy(sessions[Key].eventDraft[1][f]) =>
                       Truthy(sessions'[Key].eventDraft[1][f])
      ]_vars

\* C10: while the session stays in the Map unexpired, its draft changes only
\* in the step in which a turn's planNext returned propose_event, and then
\* the whole draft is replaced by the proposed one; no other step empties or
\* edits it.
C10_DraftChangesOnlyByProposal ==
    [][ (/\ Key \in DOMAIN sessions
         /\ ~(now > sessions[Key].expiresAtMs)
         /\ Key \in DOMAIN sessions'
         /\ sessions'[Key].eventDraft # sessions[Key].eventDraft) =>
            /\ \E p \in Procs :
                   /\ pc[p] \in {"slash_plan", "msg_plan"}
                   /\ pc'[p] = "idle"
            /\ lastTurn'.via = "propose_event"
            /\ sessions'[Key].eventDraft
                   \in { <<planned.draft>> :
                             planned \in { pl \in TurnPlans :
                                               ~Threw(pl) /\ pl.action = "propose_event" } }
      ]_vars

\* a Confirm in flight holds the draft it read, with a description, while
\* the session's draft is a later proposal without one
C10_Witness ==
    \E p \in Procs :
        /\ pc[p] \in {"confirm_defer", "confirm_create"}
        /\ held[p][1].description = "fun"
        /\ Key \in DOMAIN sessions
        /\ ~(now > sessions[Key].expiresAtMs)
        /\ sessions[Key].eventDraft # <<>>
        /\ sessions[Key].eventDraft[1].description = Undefined

-----------------------------------------------------------------------------
(* Further properties of the planner, checked under PlanSpec *)

\* C11: the session patch of an ask or propose_event result, which is what
\* normalizeSessionPatch made of the model's sessionPatch, has a mode exactly
\* when the raw mode is "event" or "chat", and then that mode; it has an
\* awaiting exactly when the raw awaiting is null, "null" or one of the five
\* slot names, null for the first two and the slot name otherwise; it has no
\* other key.  A missing sessionPatch gives the empty patch.
C11_PatchNormalized ==
    (/\ ret # <<>>
     /\ call.fn = "planNext"
     /\ ~Threw(ret[1])
     /\ ret[1].action \in {"ask", "propose_event"}) =>
        LET raw == call.response.json.sessionPatch
            out == ret[1].sessionPatch
        IN  /\ DOMAIN out \subseteq {"mode", "awaiting"}
            /\ "mode" \in DOMAIN out <=> raw.mode \in {"event", "chat"}
            /\ "mode" \in DOMAIN out => out.mode = raw.mode
            /\ "awaiting" \in DOMAIN out <=>
                   raw.awaiting \in {Null, "null", "name", "where", "duration",
                                     "description", "confirm"}
            /\ "awaiting" \in DOMAIN out =>
                   out.awaiting = IF raw.awaiting \in {Null, "null"} THEN Null
                                  ELSE raw.awaiting

\* an ask whose raw patch has an unknown mode and the text "null" as
\* awaiting: the patch is the explicit clear of awaiting and nothing else
C11_Witness ==
    /\ ret # <<>>
    /\ call.fn = "planNext"
    /\ ~Threw(ret[1])
    /\ ret[1].action = "ask"
    /\ call.response.json.sessionPatch.mode = "party"
    /\ call.response.json.sessionPatch.awaiting = "null"
    /\ DOMAIN ret[1].sessionPatch = {"awaiting"}
    /\ ret[1].sessionPatch.awaiting = Null

\* C12: a chat result has a reply that is not blank and an ask result a
\* question that is not blank; a model output of action chat with a blank or
\* null reply gives the reply "OK.", and one of action ask with a blank or
\* null question gives a chat result with the clarification message.
C12_NoBlankText ==
    (ret # <<>> /\ call.fn = "planNext" /\ ~Threw(ret[1])) =>
        LET r == ret[1]
            json == call.response.json
            isObject == JsonKind(OptTrim(call.response.output_text)) = "object"
            Blank == {Null, Undefined, "", " ", "  "}
        IN  /\ r.action = "chat" => r.reply \notin Blank
            /\ r.action = "ask" => r.question \notin Blank
            /\ (isObject /\ json.action = "chat" /\ json.reply \in Blank) =>
                   (r.action = "chat" /\ r.reply = "OK.")
            /\ (isObject /\ json.action = "ask" /\ json.question \in Blank) =>
                   /\ r.action = "chat"
                   /\ r.reply = "I need one detail to proceed-what should I clarify?"
                   /\ "question" \notin DOMAIN r

\* an ask with a question of one blank came back as the chat result with
\* the clarification message
C12_Witness ==
    /\ ret # <<>>
    /\ call.fn = "planNext"
    /\ call.response.ok
    /\ call.response.json.action = "ask"
    /\ call.response.json.question = " "
    /\ ~Threw(ret[1])
    /\ ret[1].action = "chat"
    /\ ret[1].reply = "I need one detail to proceed-what should I clarify?"

\* C13: in a propose_event result each of description, scheduledEndTime,
\* location and channelId is absent from the draft or a string that is not
\* empty, and it is absent whenever the model wrote null or the empty string.
C13_OptionalFieldsAbsentOrNonEmpty ==
    (/\ ret # <<>>
     /\ call.fn = "planNext"
     /\ ~Threw(ret[1])
     /\ ret[1].action = "propose_event") =>
        \A f \in {"description", "scheduledEndTime", "location", "channelId"} :
            /\ ret[1].draft[f] \notin {Null, ""}
            /\ call.response.json.draft[f] \in {Null, Undefined, ""} =>
                   ret[1].draft[f] = Undefined
            /\ call.response.json.draft[f] \notin {Null, Undefined, ""} =>
                   ret[1].draft[f] = call.response.json.draft[f]

\* a proposal whose end time and description are null and whose location is
\* the empty string: the three are absent, the channelId is kept
C13_Witness ==
    /\ ret # <<>>
    /\ call.fn = "planNext"
    /\ ~Threw(ret[1])
    /\ ret[1].action = "propose_event"
    /\ call.response.json.draft.scheduledEndTime = Null
    /\ call.response.json.draft.description = Null
    /\ call.response.json.draft.location = ""
    /\ call.response.json.draft.channelId = "c1"
    /\ ret[1].draft.scheduledEndTime = Undefined
    /\ ret[1].draft.description = Undefined
    /\ ret[1].draft.location = Undefined
    /\ ret[1].draft.channelId = "c1"

-----------------------------------------------------------------------------
(* Properties of the event draft rules, checked under RuleSpec *)

\* C14: validateDraft returns the message of the first rule that fails, in
\* the order: name not blank; start time present; entity type present; start
\* time parses; start time at least 60 seconds (one unit) after now; an end
\* time that is present parses; an end time that is present is strictly
\* after the start; location not blank when EXTERNAL; channelId not blank
\* when not EXTERNAL.  It returns null exactly when every rule passes.
C14_FirstFailingRule ==
    (ret # <<>> /\ call.fn = "rules") =>
        LET d == call.draft
            start == FromISO(d.scheduledStartTime)
            end == FromISO(d.scheduledEndTime)
            Blank == {Null, Undefined, "", " ", "  "}
            hasEnd == d.scheduledEndTime \notin {Null, Undefined, ""}
            Rules ==
                << [ ok |-> d.name \notin Blank,
                     msg |-> "Missing event name." ],
                   [ ok |-> d.scheduledStartTime \notin {Null, Undefined, ""},
                     msg |-> "Missing start time." ],
                   [ ok |-> d.entityType \notin {Null, Undefined, ""},
                     msg |-> "Missing entity type." ],
                   [ ok |-> start # Invalid,
                     msg |-> "Start time is not a valid ISO timestamp." ],
                   [ ok |-> start >= now + 1,
                     msg |-> "Start time must be in the future." ],
                   [ ok |-> hasEnd => end # Invalid,
                     msg |-> "End time is not a valid ISO timestamp." ],
                   [ ok |-> hasEnd => end > start,
                     msg |-> "End time must be after start time." ],
                   [ ok |-> d.entityType = "EXTERNAL" => d.location \notin Blank,
                     msg |-> "External events require a location." ],
                   [ ok |-> d.entityType # "EXTERNAL" => d.channelId \notin Blank,
                     msg |-> "Voice/Stage events require a channelId." ] >>
            Failing == { i \in 1 .. Len(Rules) : ~Rules[i].ok }
        IN  IF Failing = {} THEN ret[1] = Null
            ELSE \E i \in Failing :
                     /\ \A j \in Failing : i <= j
                     /\ ret[1] = Rules[i].msg

\* a draft with neither start time nor entity type, an end time that does
\* not parse and no location: the message is the one for the start time
C14_Witness ==
    /\ call.fn = "rules"
    /\ ret = <<"Missing start time.">>
    /\ call.draft.name = "Party"
    /\ call.draft.scheduledStartTime = Undefined
    /\ call.draft.entityType = Undefined
    /\ call.draft.scheduledEndTime = "bad"
    /\ call.draft.location = Undefined

\* C15: a draft that validateDraft accepts after applyDefaultEndTimeIfMissing
\* has a start time and an end time, both parse, and the end is strictly
\* after the start, whatever the configured default duration.
C15_AcceptedDraftHasStartBeforeEnd ==
    (call.fn = "rules" /\ call.applied >= 1 /\ ret = <<Null>>) =>
        /\ Truthy(call.draft.scheduledStartTime)
        /\ Truthy(call.draft.scheduledEndTime)
        /\ FromISO(call.draft.scheduledStartTime) # Invalid
        /\ FromISO(call.draft.scheduledEndTime) # Invalid
        /\ FromISO(call.draft.scheduledEndTime) > FromISO(call.draft.scheduledStartTime)

\* a draft without an end time was given one by the default duration and
\* then accepted
C15_Witness ==
    /\ call.fn = "rules"
    /\ call.applied = 1
    /\ ret = <<Null>>
    /\ call.orig.scheduledEndTime = Undefined
    /\ call.draft.scheduledEndTime =
           ToISO(FromISO(call.orig.scheduledStartTime) + call.minutes)

\* C16: applyDefaultEndTimeIfMissing applied a second time returns what the
\* first application returned; a draft that has an end time comes back as it
\* was; a draft with no end time whose start time does not parse comes back
\* as it was, with no end time.
C16_ApplyDefaultIdempotent ==
    (call.fn = "rules" /\ call.applied >= 1) =>
        /\ call.applied >= 2 => call.draft = call.once
        /\ Truthy(call.orig.scheduledEndTime) => call.once = call.orig
        /\ (~Truthy(call.orig.scheduledEndTime)
                /\ FromISO(call.orig.scheduledStartTime) = Invalid) =>
               (call.once = call.orig /\ ~Truthy(call.once.scheduledEndTime))
        /\ (~Truthy(call.orig.scheduledEndTime)
                /\ FromISO(call.orig.scheduledStartTime) # Invalid) =>
               /\ FromISO(call.once.scheduledEndTime) =
                      FromISO(call.orig.scheduledStartTime) + call.minutes
               /\ \A f \in DraftFields \ {"scheduledEndTime"} :
                      call.once[f] = call.orig[f]

\* the default end time was filled in by the first application and left
\* alone by the second
C16_Witness ==
    /\ call.fn = "rules"
    /\ call.applied = 2
    /\ call.orig.scheduledEndTime = Undefined
    /\ Truthy(call.once.scheduledEndTime)
    /\ call.draft = call.once

-----------------------------------------------------------------------------
(* Properties of two turns for one key, checked under TurnSpec *)

\* C17: when the second of two turns began before the first had ended, the
\* mode, awaiting and eventDraft the Map holds once both have ended are
\* those that the writes of one whole turn followed by the writes of the
\* other whole turn give, in one of the two orders and for some clock
\* values of the writes.
C17_InterleavingIsSerial ==
    (call.fn = "turns" /\ Len(call.done) = 2 /\ call.overlap) =>
        LET Fields(store) ==
                IF Key \in DOMAIN store
                THEN <<store[Key].mode, store[Key].awaiting, store[Key].eventDraft>>
                ELSE <<>>
            Clock == 0 .. MaxTime
            Timings == { tt \in Clock \X Clock \X Clock \X Clock :
                             tt[1] <= tt[2] /\ tt[2] <= tt[3] /\ tt[3] <= tt[4] }
            Serial(x, y) ==
                { Fields(TurnWrites(TurnWrites(call.base, x, tt[1], tt[2]),
                                    y, tt[3], tt[4])) : tt \in Timings }
        IN  Fields(sessions) \in Serial(call.done[1], call.done[2])
                                     \cup Serial(call.done[2], call.done[1])

\* two overlapping turns on a session with a draft: the one that ended
\* first proposed another draft, the one that ended second was a chat
\* turn that set mode chat; the Map holds the later draft and mode chat
C17_Witness ==
    /\ call.fn = "turns"
    /\ call.overlap
    /\ Len(call.done) = 2
    /\ Key \in DOMAIN call.base
    /\ call.base[Key].eventDraft # <<>>
    /\ ~Threw(call.done[1].planned)
    /\ call.done[1].planned.action = "propose_event"
    /\ <<call.done[1].planned.draft>> # call.base[Key].eventDraft
    /\ ~Threw(call.done[2].planned)
    /\ call.done[2].planned.action = "chat"
    /\ "sessionPatch" \in DOMAIN call.done[2].planned
    /\ Key \in DOMAIN sessions
    /\ sessions[Key].mode = "chat"
    /\ sessions[Key].eventDraft = <<call.done[1].planned.draft>>

\* C18: the step in which a turn's planNext returns ask or propose_event
\* leaves the session of the key with mode event, whatever mode the model's
\* sessionPatch carried; for propose_event it also leaves awaiting confirm
\* and the proposed draft as eventDraft.
C18_AskAndProposeSetEventMode ==
    [][ (call.fn = "turns" /\ Len(call'.done) = Len(call.done) + 1) =>
            LET planned == call'.done[Len(call'.done)].planned
            IN  ~Threw(planned) =>
                    /\ planned.action \in {"ask", "propose_event"} =>
                           /\ Key \in DOMAIN sessions'
                           /\ sessions'[Key].mode = "event"
                    /\ planned.action = "propose_event" =>
                           /\ sessions'[Key].awaiting = "confirm"
                           /\ sessions'[Key].eventDraft = <<planned.draft>>
      ]_vars

\* a turn whose model output was an ask with sessionPatch.mode chat has
\* ended, and the session has mode event
C18_Witness ==
    /\ call.fn = "turns"
    /\ Len(call.done) >= 1
    /\ ~Threw(call.done[Len(call.done)].planned)
    /\ call.done[Len(call.done)].planned.action = "ask"
    /\ call.done[Len(call.done)].response.json.sessionPatch.mode = "chat"
    /\ call.done[Len(call.done)].planned.sessionPatch.mode = "chat"
    /\ Key \in DOMAIN sessions
    /\ sessions[Key].mode = "event"

\* C19: a chat result for a model output whose normalized patch is empty, or
\* whose action was ask with a blank question, has no sessionPatch; the step
\* in which a turn's planNext returns a chat result without sessionPatch
\* leaves mode, awaiting and eventDraft of a live session as they were and
\* sets expiresAtMs to now + TTL.
C19_ChatWithoutPatchKeepsSession ==
    [][ (call.fn = "turns" /\ Len(call'.done) = Len(call.done) + 1) =>
            LET turn == call'.done[Len(call'.done)]
                planned == turn.planned
                raw == turn.response.json.sessionPatch
                noInstruction ==
                    /\ raw.mode \notin {"event", "chat"}
                    /\ raw.awaiting \notin {Null, "null", "name", "where", "duration",
                                            "description", "confirm"}
            IN  (~Threw(planned) /\ planned.action = "chat") =>
                    /\ (noInstruction \/ turn.response.json.action = "ask") =>
                           "sessionPatch" \notin DOMAIN planned
                    /\ (/\ "sessionPatch" \notin DOMAIN planned
                        /\ Key \in DOMAIN sessions
                        /\ ~(now > sessions[Key].expiresAtMs)) =>
                           /\ Key \in DOMAIN sessions'
                           /\ sessions'[Key].mode = sessions[Key].mode
                           /\ sessions'[Key].awaiting = sessions[Key].awaiting
                           /\ sessions'[Key].eventDraft = sessions[Key].eventDraft
                           /\ sessions'[Key].expiresAtMs = now + sessionTtlMinutes
      ]_vars

\* an ask with a blank question and a patch that set awaiting came back as
\* a chat result without sessionPatch; the session keeps its draft, mode
\* event and awaiting confirm, and its expiry is the refreshed one
C19_Witness ==
    /\ call.fn = "turns"
    /\ Len(call.done) >= 1
    /\ call.done[Len(call.done)].response.json.action = "ask"
    /\ ~Threw(call.done[Len(call.done)].planned)
    /\ call.done[Len(call.done)].planned.action = "chat"
    /\ "sessionPatch" \notin DOMAIN call.done[Len(call.done)].planned
    /\ now >= 1
    /\ Key \in DOMAIN sessions
    /\ sessions[Key].mode = "event"
    /\ sessions[Key].awaiting = "confirm"
    /\ sessions[Key].eventDraft = call.base[Key].eventDraft
    /\ sessions[Key].eventDraft # <<>>
    /\ sessions[Key].expiresAtMs = now + sessionTtlMinutes

-----------------------------------------------------------------------------
(* Properties of the buttons after one proposal, checked under ClickSpec *)

\* C20 as stated: after one propose_event, whatever Confirm clicks follow and
\* however their handlers overlap, guild.scheduledEvents.create is called at
\* most once: the calls awaited now, and the call of the Confirm that ended
\* last if it made one, are no more than one together.
C20_AtMostOneCreateCall ==
    Cardinality({ p \in Procs : req[p] # <<>> })
        + (IF lastTurn.via \in {"created", "api_failed"} THEN 1 ELSE 0) <= 1

-----------------------------------------------------------------------------
(* Further properties of the dispatcher, checked under Spec *)

\* C21 as stated: a plain-message turn never brings a session back: when the
\* key has no live session (a Cancel or a commit cleared it, or it expired)
\* at the moment a message turn's planNext settles, getSession finds no
\* session for the key after that turn's step either.
C21_MessageTurnNeverRevivesSession ==
    [][ (\E p \in Procs : pc[p] = "msg_plan" /\ pc'[p] = "idle") =>
            (getSession(sessions, Key, now).ret = <<>> =>
                 getSession(sessions', Key, now').ret = <<>>)
      ]_vars

\* C22 as stated: guild.scheduledEvents.create is called only for a session
\* that is awaiting confirmation: in the step in which a Confirm makes the
\* call, the key has a live session with mode = event and awaiting = confirm,
\* and the draft the Confirm commits is the draft that session holds (the one
\* the most recent propose_event stored).
C22_CommitOnlyWhileAwaitingConfirm ==
    [][ \A p \in Procs :
            (req[p] = <<>> /\ req'[p] # <<>>) =>
                LET got == getSession(sessions, Key, now).ret
                IN  IF got = <<>> THEN FALSE
                    ELSE /\ got[1].mode = "event"
                         /\ got[1].awaiting = "confirm"
                         /\ got[1].eventDraft = held[p]
      ]_vars

=============================================================================
